---- MODULE Spec2Model ----
(***************************************************************************)
(* Model of the BookScript Writer editor core: the shared text buffer      *)
(* (Arc<Mutex<String>>), the interactive path (App::update, load_file,     *)
(* save_file in app.rs) and the autosave loop (autosave_thread in          *)
(* storage.rs), together with the part of the filesystem they touch.       *)
(***************************************************************************)
EXTENDS Integers, Sequences, FiniteSets, TLC

\* ------------------------------------------------------------------ bounds
\* Longest text (in characters) the buffer and the files hold in the model.
MaxLen == 2

\* The characters a text is made of.
Chars == {"a", "b"}

Texts == UNION {[1..n -> Chars] : n \in 0..MaxLen}

\* The texts the user types and the texts test.bks may hold: the empty text
\* and, for each character, the longest text made of it.
Inputs == {<<>>} \cup {[i \in 1..MaxLen |-> c] : c \in Chars}

\* Longest String (in characters) saved and loaded back byte by byte.
RtMaxLen == 2

\* The characters of those Strings, as Unicode scalar values: line feed, "a",
\* e-acute, the euro sign and an emoji (1, 1, 2, 3 and 4 bytes of UTF-8).
CodePoints == {10, 97, 233, 8364, 128512}

Strings == UNION {[1..n -> CodePoints] : n \in 0..RtMaxLen}

\* ------------------------------------------------------------------- paths
\* app.rs:181, app.rs:189: the two hardcoded paths of the File menu.
test_path == "test.bks"
save_path == "output.bks"
\* storage.rs:112: <data_dir>/projects, and storage.rs:171: its autosave.bks.
autosave_dir == "DATA/projects"
autosave_path == "DATA/projects/autosave.bks"

Paths == {test_path, save_path, autosave_path}

\* Path::parent(): the empty path for a bare file name.
Parent(p) == IF p = autosave_path THEN autosave_dir ELSE ""

None == "None"

\* --------------------------------------------------------------- the files
\* A file is absent or holds text.
Absent == [kind |-> "absent", data |-> <<>>]
TextFile(t) == [kind |-> "text", data |-> t]
FileStates == {Absent} \cup {TextFile(t) : t \in Texts}

Ok(v) == [ok |-> TRUE, val |-> v]
Err(m) == [ok |-> FALSE, val |-> m]

\* An anyhow::Error: the context given at the call and, under it, the cause
\* (the operating system's error; "" when there is none).
Error(ctx, cause) == [ctx |-> ctx, cause |-> cause]

\* Result::context / Option::context: an error is wrapped under ctx.
Context(r, ctx) == IF r.ok THEN r ELSE Err(Error(ctx, r.val))

\* A Display that prints the whole chain, as "{:#}" does.
DisplayChain(e) == IF e.cause = "" THEN e.ctx ELSE e.ctx \o <<": ", e.cause>>

\* "{}" of an anyhow::Error prints the outermost context only.
Display(e) == e.ctx

Contains(msg, tok) == \E i \in 1..Len(msg) : msg[i] = tok

Prefix(s, n) == SubSeq(s, 1, n)

VARIABLES
    text_content,       \* the String inside Arc<Mutex<String>>
    mutex,              \* who holds the Mutex: "free", "gui" or "auto"
    current_file_path,  \* App.current_file_path: None or a path
    status_message,     \* App.status_message, as the pieces format! joins
    files,              \* the filesystem: path -> file state
    dir,                \* the autosave directory: "absent", "dir" or "file"
    home,               \* whether the platform's user directory resolves
    g_pc,               \* position of the interactive path inside update()
    g_content,          \* load_file / save_file local `content`
    g_pre,              \* buffer and file reference when the menu call began
    a_pc,               \* position of the autosave loop
    a_content,          \* autosave_thread local `content` (being cloned)
    a_held,             \* the values the buffer held while the clone ran
    a_tries,            \* calls made since the sleep: get_autosave_dir, fs::write
    log,                \* the line the latest autosave cycle printed
    rt_pc,              \* save-then-load of one path: "off", "start", "written", "loaded"
    rt_path,            \* the path saved to and loaded from
    rt_text,            \* the String given to save_text_file
    rt_dir,             \* the state of the path's parent directory
    rt_file,            \* the file at the path, as bytes
    rt_ok,              \* whether save_text_file returned Ok
    rt_other,           \* whether something else wrote the file since
    rt_result,          \* what the latest adapter call returned
    rt_pre              \* the directory and the file before the save

appvars == <<text_content, mutex, current_file_path, status_message, files,
             dir, home, g_pc, g_content, g_pre, a_pc, a_content, a_held,
             a_tries, log>>

rtvars == <<rt_pc, rt_path, rt_text, rt_dir, rt_file, rt_ok, rt_other,
            rt_result, rt_pre>>

vars == <<appvars, rtvars>>

gvars == <<current_file_path, status_message, g_pc, g_content, g_pre>>
avars == <<a_pc, a_content, a_tries, log>>
envvars == <<dir, home>>


\* ------------------------------------------------------ persistence adapter
\* storage.rs:39-52: the whole file as text, or an error naming the path.
load_text_file(fs, path) ==
    Context(IF fs[path].kind = "text"
            THEN Ok(fs[path].data)
            ELSE Err("No such file or directory (os error 2)"),
            <<"Failed to read file: ", path>>)

\* A create_dir that makes no directory: it wants the parent to be there.
create_dir_none(d, parent) ==
    IF parent = "" \/ d = "dir" THEN Ok(d)
    ELSE IF d = "file" THEN Err("File exists (os error 17)")
    ELSE Err("No such file or directory (os error 2)")

\* fs::create_dir_all: nothing to do for the empty path; creates a missing
\* directory; fails when the path exists as a non-directory file.
\* The value of an Ok is the directory's state afterwards.
create_dir_all(d, parent) ==
    IF parent = "" THEN Ok(d)
    ELSE IF d = "file" THEN Err("File exists (os error 17)")
    ELSE Ok("dir")

\* storage.rs:70-75: the first half of save_text_file.
save_mkdir(d, path) ==
    Context(create_dir_all(d, Parent(path)),
            <<"Failed to create directory: ", Parent(path)>>)

\* storage.rs:80, fs::write opening the file (create + truncate): fails when
\* the parent is not a directory or the system denies the open; on success
\* the file exists and is empty.
save_open(fs, d, path, denied) ==
    Context(IF Parent(path) # "" /\ d # "dir"
            THEN Err("No such file or directory (os error 2)")
            ELSE IF denied
            THEN Err("Permission denied (os error 13)")
            ELSE Ok([fs EXCEPT ![path] = TextFile(<<>>)]),
            <<"Failed to write file: ", path>>)

\* A write that reports success one character early.
save_write_short(fs, path, content, n) ==
    LET fs2 == [fs EXCEPT ![path] = TextFile(Prefix(content, n))] IN
    IF n + 1 >= Len(content)
    THEN [ok |-> TRUE, val |-> <<>>, fs |-> fs2]
    ELSE [ok |-> FALSE, fs |-> fs2,
          val |-> Error(<<"Failed to write file: ", path>>,
                        "No space left on device (os error 28)")]

\* storage.rs:80, fs::write writing the bytes: n of them reach the file; the
\* write succeeds when all of them did.
save_write(fs, path, content, n) ==
    LET fs2 == [fs EXCEPT ![path] = TextFile(Prefix(content, n))] IN
    IF n = Len(content)
    THEN [ok |-> TRUE, val |-> <<>>, fs |-> fs2]
    ELSE [ok |-> FALSE, fs |-> fs2,
          val |-> Error(<<"Failed to write file: ", path>>,
                        "No space left on device (os error 28)")]

\* ------------------------------------------------- Strings and their bytes
\* char::encode_utf8: the UTF-8 bytes of one scalar value.
encode_utf8(cp) ==
    IF cp < 128 THEN <<cp>>
    ELSE IF cp < 2048 THEN <<192 + (cp \div 64), 128 + (cp % 64)>>
    ELSE IF cp < 65536
    THEN <<224 + (cp \div 4096), 128 + ((cp \div 64) % 64), 128 + (cp % 64)>>
    ELSE <<240 + (cp \div 262144), 128 + ((cp \div 4096) % 64),
           128 + ((cp \div 64) % 64), 128 + (cp % 64)>>

\* str::as_bytes, what fs::write(path, content) is given (storage.rs:80).
RECURSIVE as_bytes(_)
as_bytes(str) ==
    IF str = <<>> THEN <<>> ELSE encode_utf8(Head(str)) \o as_bytes(Tail(str))

\* The number of bytes a character starting with byte b takes; 0 when b
\* cannot start one.
utf8_char_width(b) ==
    IF b < 128 THEN 1
    ELSE IF b \in 194..223 THEN 2
    ELSE IF b \in 224..239 THEN 3
    ELSE IF b \in 240..244 THEN 4
    ELSE 0

\* The second byte of a character: a continuation byte, narrowed so that
\* overlong forms, surrogates and values over U+10FFFF are refused.
second_byte_ok(b0, b1) ==
    IF b0 = 224 THEN b1 \in 160..191
    ELSE IF b0 = 237 THEN b1 \in 128..159
    ELSE IF b0 = 240 THEN b1 \in 144..191
    ELSE IF b0 = 244 THEN b1 \in 128..143
    ELSE b1 \in 128..191

\* Whether a well-formed character starts at byte i of bytes.
char_ok(bytes, i) ==
    LET w == utf8_char_width(bytes[i]) IN
    /\ w > 0
    /\ i + w - 1 <= Len(bytes)
    /\ w >= 2 => second_byte_ok(bytes[i], bytes[i + 1])
    /\ \A k \in 2..(w - 1) : bytes[i + k] \in 128..191

\* The scalar value of the character that starts at byte i.
next_code_point(bytes, i) ==
    LET w == utf8_char_width(bytes[i])
        c(k) == bytes[i + k] - 128
    IN  IF w = 1 THEN bytes[i]
        ELSE IF w = 2 THEN (bytes[i] - 192) * 64 + c(1)
        ELSE IF w = 3 THEN (bytes[i] - 224) * 4096 + c(1) * 64 + c(2)
        ELSE (bytes[i] - 240) * 262144 + c(1) * 4096 + c(2) * 64 + c(3)

RECURSIVE run_utf8_validation(_, _)
run_utf8_validation(bytes, i) ==
    \/ i > Len(bytes)
    \/ /\ char_ok(bytes, i)
       /\ run_utf8_validation(bytes, i + utf8_char_width(bytes[i]))

RECURSIVE chars(_, _)
chars(bytes, i) ==
    IF i > Len(bytes) THEN <<>>
    ELSE <<next_code_point(bytes, i)>>
             \o chars(bytes, i + utf8_char_width(bytes[i]))

\* A reader that takes every byte for one character.
from_latin1(bytes) == Ok(bytes)

\* String::from_utf8, the check fs::read_to_string makes (storage.rs:45).
from_utf8(bytes) ==
    IF run_utf8_validation(bytes, 1)
    THEN Ok(chars(bytes, 1))
    ELSE Err("stream did not contain valid UTF-8")

\* storage.rs:45: fs::read_to_string of a file given as bytes.
read_to_string(file) ==
    IF file.kind = "text"
    THEN from_utf8(file.data)
    ELSE Err("No such file or directory (os error 2)")

\* What other programs may leave in the file: nothing, a letter, the first
\* byte of a two-byte character, a byte no UTF-8 text holds.
OtherBytes == {<<>>, <<97>>, <<195>>, <<255>>}

\* storage.rs:99-121: the autosave directory, created when missing.
get_autosave_dir(h, d) ==
    IF ~h
    THEN Context(Err(""), <<"Could not determine user data directory">>)
    ELSE Context(create_dir_all(d, autosave_dir),
                 <<"Failed to create autosave directory: ", autosave_dir>>)

\* ------------------------------------------------------------------- mutex
\* A lock that does not look at the holder.
CanLockAlways(t) == TRUE

\* Mutex::lock() returns only when nobody holds the mutex.
CanLock(t) == mutex = "free"

\* A lock that takes the mutex without waiting for it.
LockNoWait(t) == mutex' = t

Lock(t) == CanLock(t) /\ mutex' = t

\* A guard whose drop leaves the mutex with its holder.
UnlockKeeps(t) == mutex' = t

\* Dropping the MutexGuard.
Unlock(t) == mutex' = "free"

\* One step of String::clone: the next character of `from` joins the copy.
CloneStep(copy, from) == Append(copy, from[Len(copy) + 1])

CloneDone(copy, from) == Len(copy) >= Len(from)

\* A store that pushes the loaded text after what is there.
StoreAppend(old, new) == old \o new

\* app.rs:106: the assignment through the guard replaces the whole String.
Store(old, new) == new

\* Every change of the buffer is seen by a clone that is running.
Held(new) == IF a_pc = "a_copy" THEN a_held \cup {new} ELSE a_held

NoPre == [buf |-> <<>>, cur |-> None]

NoTries == [resolve |-> 0, write |-> 0]

\* -------------------------------------------------------------------- init
\* No save-then-load is followed.
RtOff ==
    /\ rt_pc = "off"
    /\ rt_path = None
    /\ rt_text = <<>>
    /\ rt_dir = "absent"
    /\ rt_file = Absent
    /\ rt_ok = FALSE
    /\ rt_other = FALSE
    /\ rt_result = Ok(<<>>)
    /\ rt_pre = [dir |-> "absent", file |-> Absent]

\* A loop whose body saves first and sleeps after.
InitSaveFirst ==
    /\ RtOff
    /\ text_content = <<>>
    /\ mutex = "free"
    /\ current_file_path = None
    /\ status_message = <<"Ready">>
    /\ \E f \in {Absent} \cup {TextFile(t) : t \in Inputs} :
         files = [p \in Paths |-> IF p = test_path THEN f ELSE Absent]
    /\ dir = "absent"
    /\ home \in BOOLEAN
    /\ g_pc = "menu"
    /\ g_content = <<>>
    /\ g_pre = NoPre
    /\ a_pc = "resolve"
    /\ a_content = <<>>
    /\ a_held = {}
    /\ a_tries = NoTries
    /\ log = <<>>

\* app.rs:56-90 (App::new) over a filesystem in any state.
Init ==
    /\ RtOff
    /\ text_content = <<>>
    /\ mutex = "free"
    /\ current_file_path = None
    /\ status_message = <<"Ready">>
    /\ \E f \in {Absent} \cup {TextFile(t) : t \in Inputs} :
         files = [p \in Paths |-> IF p = test_path THEN f ELSE Absent]
    /\ dir = "absent"
    /\ home \in BOOLEAN
    /\ g_pc = "menu"
    /\ g_content = <<>>
    /\ g_pre = NoPre
    /\ a_pc = "sleeping"
    /\ a_content = <<>>
    /\ a_held = {}
    /\ a_tries = NoTries
    /\ log = <<>>

\* ------------------------------------------------------- interactive path
\* app.rs:178-183: the Open button calls load_file(test.bks).
ClickOpen ==
    /\ g_pc = "menu"
    /\ g_pc' = "load_read"
    /\ g_pre' = [buf |-> text_content, cur |-> current_file_path]
    /\ UNCHANGED <<text_content, mutex, current_file_path, status_message,
                   files, g_content>>
    /\ UNCHANGED <<envvars, avars, a_held>>
    /\ UNCHANGED rtvars

\* A load_file that records the path even when the read failed.
LoadReadRecordsPath(path) ==
    /\ g_pc = "load_read"
    /\ LET r == load_text_file(files, path) IN
         IF r.ok
         THEN /\ g_content' = r.val
              /\ g_pc' = "load_lock"
              /\ UNCHANGED <<status_message, current_file_path>>
         ELSE /\ status_message' = <<"Error loading file: ">> \o Display(r.val)
              /\ current_file_path' = path
              /\ g_pc' = "load_err"
              /\ UNCHANGED g_content
    /\ UNCHANGED <<text_content, mutex, files, g_pre>>
    /\ UNCHANGED <<envvars, avars, a_held>>
    /\ UNCHANGED rtvars

\* app.rs:99, 115-118: load_text_file runs before any lock is taken; its
\* error goes to the status line and load_file returns.
LoadRead(path) ==
    /\ g_pc = "load_read"
    /\ LET r == load_text_file(files, path) IN
         IF r.ok
         THEN /\ g_content' = r.val
              /\ g_pc' = "load_lock"
              /\ UNCHANGED status_message
         ELSE /\ status_message' = <<"Error loading file: ">> \o Display(r.val)
              /\ g_pc' = "load_err"
              /\ UNCHANGED g_content
    /\ UNCHANGED <<text_content, mutex, current_file_path, files, g_pre>>
    /\ UNCHANGED <<envvars, avars, a_held>>
    /\ UNCHANGED rtvars

\* app.rs:106: self.text_content.lock().unwrap()
LoadLock ==
    /\ g_pc = "load_lock"
    /\ Lock("gui")
    /\ g_pc' = "load_store"
    /\ UNCHANGED <<text_content, current_file_path, status_message, files,
                   g_content, g_pre>>
    /\ UNCHANGED <<envvars, avars, a_held>>
    /\ UNCHANGED rtvars

\* A load_file whose guard lives on after the store.
LoadStoreKeepsGuard(path) ==
    /\ g_pc = "load_store"
    /\ text_content' = Store(text_content, g_content)
    /\ a_held' = Held(text_content')
    /\ current_file_path' = path
    /\ status_message' = <<"Loaded: ", path>>
    /\ g_pc' = "load_ok"
    /\ g_content' = <<>>
    /\ UNCHANGED <<mutex, files, g_pre>>
    /\ UNCHANGED <<envvars, avars>>
    /\ UNCHANGED rtvars

\* app.rs:106-112: the store through the guard, the guard's drop at the end
\* of the statement, then the file reference and the status line.
LoadStore(path) ==
    /\ g_pc = "load_store"
    /\ text_content' = Store(text_content, g_content)
    /\ a_held' = Held(text_content')
    /\ Unlock("gui")
    /\ current_file_path' = path
    /\ status_message' = <<"Loaded: ", path>>
    /\ g_pc' = "load_ok"
    /\ g_content' = <<>>
    /\ UNCHANGED <<files, g_pre>>
    /\ UNCHANGED <<envvars, avars>>
    /\ UNCHANGED rtvars

\* app.rs:120, 140: load_file or save_file returns into update().
MenuReturn ==
    /\ g_pc \in {"load_ok", "load_err", "save_ok", "save_err"}
    /\ g_pc' = "edit_lock"
    /\ g_pre' = NoPre
    /\ g_content' = <<>>
    /\ UNCHANGED <<text_content, mutex, current_file_path, status_message, files>>
    /\ UNCHANGED <<envvars, avars, a_held>>
    /\ UNCHANGED rtvars

\* app.rs:186-191: the Save As button calls save_file(output.bks).
ClickSave ==
    /\ g_pc = "menu"
    /\ g_pc' = "save_lock"
    /\ g_pre' = [buf |-> text_content, cur |-> current_file_path]
    /\ UNCHANGED <<text_content, mutex, current_file_path, status_message,
                   files, g_content>>
    /\ UNCHANGED <<envvars, avars, a_held>>
    /\ UNCHANGED rtvars

\* app.rs:127: self.text_content.lock().unwrap()
SaveLock ==
    /\ g_pc = "save_lock"
    /\ Lock("gui")
    /\ g_pc' = "save_copy"
    /\ g_content' = <<>>
    /\ UNCHANGED <<text_content, current_file_path, status_message, files, g_pre>>
    /\ UNCHANGED <<envvars, avars, a_held>>
    /\ UNCHANGED rtvars

\* app.rs:127: .clone(), character by character, under the guard.
SaveClone ==
    /\ g_pc = "save_copy"
    /\ ~CloneDone(g_content, text_content)
    /\ g_content' = CloneStep(g_content, text_content)
    /\ UNCHANGED <<text_content, mutex, current_file_path, status_message,
                   files, g_pc, g_pre>>
    /\ UNCHANGED <<envvars, avars, a_held>>
    /\ UNCHANGED rtvars

\* A save_file that keeps the guard while it writes the file.
SaveUnlockHeld ==
    /\ g_pc = "save_copy"
    /\ CloneDone(g_content, text_content)
    /\ g_pc' = "save_mkdir"
    /\ UNCHANGED <<text_content, mutex, current_file_path, status_message, files,
                   g_content, g_pre>>
    /\ UNCHANGED <<envvars, avars, a_held>>
    /\ UNCHANGED rtvars

\* A save_file that takes the text out of the buffer instead of cloning it.
SaveUnlockTake ==
    /\ g_pc = "save_copy"
    /\ CloneDone(g_content, text_content)
    /\ text_content' = <<>>
    /\ a_held' = Held(text_content')
    /\ Unlock("gui")
    /\ g_pc' = "save_mkdir"
    /\ UNCHANGED <<current_file_path, status_message, files, g_content, g_pre>>
    /\ UNCHANGED <<envvars, avars>>
    /\ UNCHANGED rtvars

\* app.rs:127: the temporary guard is dropped at the end of the statement.
SaveUnlock ==
    /\ g_pc = "save_copy"
    /\ CloneDone(g_content, text_content)
    /\ Unlock("gui")
    /\ g_pc' = "save_mkdir"
    /\ UNCHANGED <<text_content, current_file_path, status_message, files,
                   g_content, g_pre>>
    /\ UNCHANGED <<envvars, avars, a_held>>
    /\ UNCHANGED rtvars

\* app.rs:130 into storage.rs:70-75.
SaveMkdir(path) ==
    /\ g_pc = "save_mkdir"
    /\ LET r == save_mkdir(dir, path) IN
         IF r.ok
         THEN /\ dir' = r.val
              /\ g_pc' = "save_open"
              /\ UNCHANGED status_message
         ELSE /\ status_message' = <<"Error saving file: ">> \o Display(r.val)
              /\ g_pc' = "save_err"
              /\ UNCHANGED dir
    /\ UNCHANGED <<text_content, mutex, current_file_path, files, g_content,
                   g_pre, home>>
    /\ UNCHANGED <<avars, a_held>>
    /\ UNCHANGED rtvars

\* A save_file that drops the error of a failed open.
SaveOpenSilent(path) ==
    /\ g_pc = "save_open"
    /\ \E denied \in BOOLEAN :
         LET r == save_open(files, dir, path, denied) IN
         IF r.ok
         THEN /\ files' = r.val
              /\ g_pc' = "save_write"
         ELSE /\ g_pc' = "save_err"
              /\ UNCHANGED files
    /\ UNCHANGED <<text_content, mutex, current_file_path, status_message,
                   g_content, g_pre>>
    /\ UNCHANGED <<envvars, avars, a_held>>
    /\ UNCHANGED rtvars

\* app.rs:130 into storage.rs:80 (the open), app.rs:136-138 on failure.
SaveOpen(path) ==
    /\ g_pc = "save_open"
    /\ \E denied \in BOOLEAN :
         LET r == save_open(files, dir, path, denied) IN
         IF r.ok
         THEN /\ files' = r.val
              /\ g_pc' = "save_write"
              /\ UNCHANGED status_message
         ELSE /\ status_message' = <<"Error saving file: ">> \o Display(r.val)
              /\ g_pc' = "save_err"
              /\ UNCHANGED files
    /\ UNCHANGED <<text_content, mutex, current_file_path, g_content, g_pre>>
    /\ UNCHANGED <<envvars, avars, a_held>>
    /\ UNCHANGED rtvars

\* A save_file that records the path whatever the write returned.
SaveWriteAlwaysRecords(path) ==
    /\ g_pc = "save_write"
    /\ \E n \in 0..Len(g_content) :
         LET r == save_write(files, path, g_content, n) IN
         /\ files' = r.fs
         /\ current_file_path' = path
         /\ IF r.ok
            THEN /\ status_message' = <<"Saved: ", path>>
                 /\ g_pc' = "save_ok"
            ELSE /\ status_message' = <<"Error saving file: ">> \o Display(r.val)
                 /\ g_pc' = "save_err"
    /\ UNCHANGED <<text_content, mutex, g_content, g_pre>>
    /\ UNCHANGED <<envvars, avars, a_held>>
    /\ UNCHANGED rtvars

\* app.rs:130 into storage.rs:80 (the write), then app.rs:131-138.
SaveWrite(path) ==
    /\ g_pc = "save_write"
    /\ \E n \in 0..Len(g_content) :
         LET r == save_write(files, path, g_content, n) IN
         /\ files' = r.fs
         /\ IF r.ok
            THEN /\ current_file_path' = path
                 /\ status_message' = <<"Saved: ", path>>
                 /\ g_pc' = "save_ok"
            ELSE /\ status_message' = <<"Error saving file: ">> \o Display(r.val)
                 /\ g_pc' = "save_err"
                 /\ UNCHANGED current_file_path
    /\ UNCHANGED <<text_content, mutex, g_content, g_pre>>
    /\ UNCHANGED <<envvars, avars, a_held>>
    /\ UNCHANGED rtvars

\* app.rs:204-209: the About button.
ClickAbout ==
    /\ g_pc = "menu"
    /\ status_message' = <<"BookScript Writer v0.1.0 - A simple writing app">>
    /\ g_pc' = "edit_lock"
    /\ UNCHANGED <<text_content, mutex, current_file_path, files, g_content, g_pre>>
    /\ UNCHANGED <<envvars, avars, a_held>>
    /\ UNCHANGED rtvars

\* app.rs:169-227: a frame in which no menu button is clicked.
NoClick ==
    /\ g_pc = "menu"
    /\ g_pc' = "edit_lock"
    /\ UNCHANGED <<text_content, mutex, current_file_path, status_message,
                   files, g_content, g_pre>>
    /\ UNCHANGED <<envvars, avars, a_held>>
    /\ UNCHANGED rtvars

\* app.rs:237: let mut text = self.text_content.lock().unwrap()
EditLock ==
    /\ g_pc = "edit_lock"
    /\ Lock("gui")
    /\ g_pc' = "edit"
    /\ UNCHANGED <<text_content, current_file_path, status_message, files,
                   g_content, g_pre>>
    /\ UNCHANGED <<envvars, avars, a_held>>
    /\ UNCHANGED rtvars

\* A frame that ends with the guard still alive.
EditKeepsGuard ==
    /\ g_pc = "edit"
    /\ \E new \in Inputs : text_content' = new
    /\ a_held' = Held(text_content')
    /\ g_pc' = "menu"
    /\ UNCHANGED <<mutex, current_file_path, status_message, files, g_content,
                   g_pre>>
    /\ UNCHANGED <<envvars, avars>>
    /\ UNCHANGED rtvars

\* app.rs:240-262: TextEdit applies the frame's input to the String in place
\* (any text, or no change), then the guard is dropped; app.rs:270 asks for
\* the next frame.
Edit ==
    /\ g_pc = "edit"
    /\ \E new \in Inputs : text_content' = new
    /\ a_held' = Held(text_content')
    /\ Unlock("gui")
    /\ g_pc' = "menu"
    /\ UNCHANGED <<current_file_path, status_message, files, g_content, g_pre>>
    /\ UNCHANGED <<envvars, avars>>
    /\ UNCHANGED rtvars

\* One frame of update(): at most one menu button is clicked, then the
\* text editor runs. The Exit button (app.rs:197-200) ends the process and
\* with it both threads; the model covers the time before that.
update ==
    \/ ClickOpen \/ LoadRead(test_path) \/ LoadLock \/ LoadStore(test_path)
    \/ ClickSave \/ SaveLock \/ SaveClone \/ SaveUnlock
    \/ SaveMkdir(save_path) \/ SaveOpen(save_path) \/ SaveWrite(save_path)
    \/ MenuReturn \/ ClickAbout \/ NoClick \/ EditLock \/ Edit

\* ----------------------------------------------------------- autosave loop
\* storage.rs:150: thread::sleep(60 s) returns.
Wake ==
    /\ a_pc = "sleeping"
    /\ a_pc' = "resolve"
    /\ log' = <<>>
    /\ UNCHANGED <<text_content, mutex, files, a_content, a_held>>
    /\ UNCHANGED <<envvars, gvars>>
    /\ a_tries' = NoTries
    /\ UNCHANGED rtvars

\* A loop that prints the error of get_autosave_dir and goes on to the save.
ResolveGoesOn ==
    /\ a_pc = "resolve"
    /\ LET r == get_autosave_dir(home, dir) IN
         IF r.ok
         THEN /\ dir' = r.val
              /\ UNCHANGED log
         ELSE /\ log' = <<"Autosave error: ">> \o Display(r.val)
              /\ UNCHANGED dir
    /\ a_pc' = "a_lock"
    /\ a_tries' = [a_tries EXCEPT !.resolve = @ + 1]
    /\ UNCHANGED <<text_content, mutex, files, a_content, a_held, home>>
    /\ UNCHANGED gvars
    /\ UNCHANGED rtvars

\* storage.rs:157-165: get_autosave_dir(); an error is printed.
Resolve ==
    /\ a_pc = "resolve"
    /\ LET r == get_autosave_dir(home, dir) IN
         IF r.ok
         THEN /\ dir' = r.val
              /\ a_pc' = "a_lock"
              /\ UNCHANGED log
         ELSE /\ log' = <<"Autosave error: ">> \o Display(r.val)
              /\ a_pc' = "err_dir"
              /\ UNCHANGED dir
    /\ UNCHANGED <<text_content, mutex, files, a_content, a_held, home>>
    /\ UNCHANGED gvars
    /\ a_tries' = [a_tries EXCEPT !.resolve = @ + 1]
    /\ UNCHANGED rtvars

\* A loop that tries again at once after an error.
AfterErrorRetry == "resolve"

\* A loop that ends at the first error.
AfterErrorReturn == "terminated"

\* Where the loop goes after printing an error.
AfterError == "sleeping"

\* storage.rs:163 (continue) and storage.rs:195-202 (the end of the body).
Continue ==
    /\ a_pc \in {"err_dir", "err_save"}
    /\ a_pc' = AfterError
    /\ a_content' = <<>>
    /\ a_held' = {}
    /\ UNCHANGED <<text_content, mutex, files, log>>
    /\ UNCHANGED <<envvars, gvars>>
    /\ UNCHANGED a_tries
    /\ UNCHANGED rtvars

\* A loop that starts its copy from the text it saved in the cycle before.
AutoLockCached ==
    /\ a_pc = "a_lock"
    /\ Lock("auto")
    /\ a_pc' = "a_copy"
    /\ a_content' = files[autosave_path].data
    /\ a_held' = {text_content}
    /\ UNCHANGED <<text_content, files, a_tries, log>>
    /\ UNCHANGED <<envvars, gvars>>
    /\ UNCHANGED rtvars

\* storage.rs:181: text_content.lock().unwrap()
AutoLock ==
    /\ a_pc = "a_lock"
    /\ Lock("auto")
    /\ a_pc' = "a_copy"
    /\ a_content' = <<>>
    /\ a_held' = {text_content}
    /\ UNCHANGED <<text_content, files, log>>
    /\ UNCHANGED <<envvars, gvars>>
    /\ UNCHANGED a_tries
    /\ UNCHANGED rtvars

\* A loop that moves the characters out of the buffer instead of copying.
AutoCloneDrains ==
    /\ a_pc = "a_copy"
    /\ text_content # <<>>
    /\ a_content' = Append(a_content, Head(text_content))
    /\ text_content' = Tail(text_content)
    /\ UNCHANGED <<mutex, files, a_pc, a_held, a_tries, log>>
    /\ UNCHANGED <<envvars, gvars>>
    /\ UNCHANGED rtvars

\* storage.rs:183: guard.clone(), character by character, under the guard.
AutoClone ==
    /\ a_pc = "a_copy"
    /\ ~CloneDone(a_content, text_content)
    /\ a_content' = CloneStep(a_content, text_content)
    /\ UNCHANGED <<text_content, mutex, files, a_pc, a_held, log>>
    /\ UNCHANGED <<envvars, gvars>>
    /\ UNCHANGED a_tries
    /\ UNCHANGED rtvars

\* A loop that keeps the guard while it writes the file.
AutoUnlockHeld ==
    /\ a_pc = "a_copy"
    /\ CloneDone(a_content, text_content)
    /\ a_pc' = "a_mkdir"
    /\ UNCHANGED <<text_content, mutex, files, a_content, a_held, log>>
    /\ UNCHANGED <<envvars, gvars>>
    /\ UNCHANGED a_tries
    /\ UNCHANGED rtvars

\* A loop that takes the text out of the buffer instead of cloning it.
AutoUnlockTake ==
    /\ a_pc = "a_copy"
    /\ CloneDone(a_content, text_content)
    /\ text_content' = <<>>
    /\ Unlock("auto")
    /\ a_pc' = "a_mkdir"
    /\ UNCHANGED <<files, a_content, a_held, a_tries, log>>
    /\ UNCHANGED <<envvars, gvars>>
    /\ UNCHANGED rtvars

\* storage.rs:185: the guard goes out of scope.
AutoUnlock ==
    /\ a_pc = "a_copy"
    /\ CloneDone(a_content, text_content)
    /\ Unlock("auto")
    /\ a_pc' = "a_mkdir"
    /\ UNCHANGED <<text_content, files, a_content, a_held, log>>
    /\ UNCHANGED <<envvars, gvars>>
    /\ UNCHANGED a_tries
    /\ UNCHANGED rtvars

\* storage.rs:190 into storage.rs:70-75, storage.rs:195-198 on failure.
AutoMkdir ==
    /\ a_pc = "a_mkdir"
    /\ LET r == save_mkdir(dir, autosave_path) IN
         IF r.ok
         THEN /\ dir' = r.val
              /\ a_pc' = "a_open"
              /\ UNCHANGED log
         ELSE /\ log' = <<"Autosave failed: ">> \o Display(r.val)
              /\ a_pc' = "err_save"
              /\ UNCHANGED dir
    /\ UNCHANGED <<text_content, mutex, files, a_content, a_held, home>>
    /\ UNCHANGED gvars
    /\ UNCHANGED a_tries
    /\ UNCHANGED rtvars

\* storage.rs:190 into storage.rs:80 (the open).
AutoOpen ==
    /\ a_pc = "a_open"
    /\ \E denied \in BOOLEAN :
         LET r == save_open(files, dir, autosave_path, denied) IN
         IF r.ok
         THEN /\ files' = r.val
              /\ a_pc' = "a_write"
              /\ UNCHANGED log
         ELSE /\ log' = <<"Autosave failed: ">> \o Display(r.val)
              /\ a_pc' = "err_save"
              /\ UNCHANGED files
    /\ UNCHANGED <<text_content, mutex, a_content, a_held>>
    /\ UNCHANGED <<envvars, gvars>>
    /\ a_tries' = [a_tries EXCEPT !.write = @ + 1]
    /\ UNCHANGED rtvars

\* A loop that writes the buffer as it is at the time of the write.
AutoWriteCurrent ==
    /\ a_pc = "a_write"
    /\ \E n \in 0..Len(text_content) :
         LET r == save_write(files, autosave_path, text_content, n) IN
         /\ files' = r.fs
         /\ IF r.ok
            THEN /\ log' = <<"Autosaved to: ", autosave_path>>
                 /\ a_pc' = "saved"
            ELSE /\ log' = <<"Autosave failed: ">> \o Display(r.val)
                 /\ a_pc' = "err_save"
    /\ UNCHANGED <<text_content, mutex, a_content, a_held, a_tries>>
    /\ UNCHANGED <<envvars, gvars>>
    /\ UNCHANGED rtvars

\* A loop that saves to the file the editor has open, when there is one.
AutoWriteFollowsFile ==
    /\ a_pc = "a_write"
    /\ LET path == IF current_file_path = None
                   THEN autosave_path ELSE current_file_path IN
       \E n \in 0..Len(a_content) :
         LET r == save_write(files, path, a_content, n) IN
         /\ files' = r.fs
         /\ IF r.ok
            THEN /\ log' = <<"Autosaved to: ", path>>
                 /\ a_pc' = "saved"
            ELSE /\ log' = <<"Autosave failed: ">> \o Display(r.val)
                 /\ a_pc' = "err_save"
    /\ UNCHANGED <<text_content, mutex, a_content, a_held, a_tries>>
    /\ UNCHANGED <<envvars, gvars>>
    /\ UNCHANGED rtvars

\* storage.rs:190 into storage.rs:80 (the write), then storage.rs:191-198.
AutoWrite ==
    /\ a_pc = "a_write"
    /\ \E n \in 0..Len(a_content) :
         LET r == save_write(files, autosave_path, a_content, n) IN
         /\ files' = r.fs
         /\ IF r.ok
            THEN /\ log' = <<"Autosaved to: ", autosave_path>>
                 /\ a_pc' = "saved"
            ELSE /\ log' = <<"Autosave failed: ">> \o Display(r.val)
                 /\ a_pc' = "err_save"
    /\ UNCHANGED <<text_content, mutex, a_content, a_held>>
    /\ UNCHANGED <<envvars, gvars>>
    /\ UNCHANGED a_tries
    /\ UNCHANGED rtvars

\* A loop that stops after its first successful save.
LoopExit ==
    /\ a_pc = "saved"
    /\ UNCHANGED vars

\* storage.rs:191-202: after the success line the loop body ends.
Loop ==
    /\ a_pc = "saved"
    /\ a_pc' = "sleeping"
    /\ a_content' = <<>>
    /\ a_held' = {}
    /\ UNCHANGED <<text_content, mutex, files, log>>
    /\ UNCHANGED <<envvars, gvars>>
    /\ UNCHANGED a_tries
    /\ UNCHANGED rtvars

autosave_thread ==
    \/ Wake \/ Resolve \/ Continue \/ AutoLock \/ AutoClone \/ AutoUnlock
    \/ AutoMkdir \/ AutoOpen \/ AutoWrite \/ Loop

\* ------------------------------------------------------------ environment
\* Something outside the program removes the autosave directory, puts a
\* file in its place, or creates it; the autosave file goes with the
\* directory. Not while the loop has the autosave file open.
EnvDir ==
    /\ a_pc # "a_write"
    /\ \E d \in {"absent", "dir", "file"} \ {dir} : dir' = d
    /\ files' = [files EXCEPT ![autosave_path] = Absent]
    /\ UNCHANGED <<text_content, mutex, home, a_held>>
    /\ UNCHANGED <<gvars, avars>>
    /\ UNCHANGED rtvars

Next == update \/ autosave_thread \/ EnvDir

Spec == Init /\ [][Next]_vars

\* ------------------------------------------------- save, then load, a path
\* The adapter alone: any String, any of the paths, the parent directory and
\* the file in any state; the editor is idle.
RtInit ==
    /\ text_content = <<>>
    /\ mutex = "free"
    /\ current_file_path = None
    /\ status_message = <<"Ready">>
    /\ files = [p \in Paths |-> Absent]
    /\ dir = "absent"
    /\ home = TRUE
    /\ g_pc = "menu"
    /\ g_content = <<>>
    /\ g_pre = NoPre
    /\ a_pc = "sleeping"
    /\ a_content = <<>>
    /\ a_held = {}
    /\ a_tries = NoTries
    /\ log = <<>>
    /\ rt_pc = "start"
    /\ rt_path \in Paths
    /\ rt_text \in Strings
    /\ rt_dir \in {"absent", "dir", "file"}
    /\ rt_file \in IF Parent(rt_path) # "" /\ rt_dir # "dir"
                    THEN {Absent}
                    ELSE {Absent, TextFile(<<97>>), TextFile(<<195, 169, 97>>)}
    /\ rt_ok = FALSE
    /\ rt_other = FALSE
    /\ rt_result = Ok(<<>>)
    /\ rt_pre = [dir |-> rt_dir, file |-> rt_file]

\* storage.rs:65-84: save_text_file(rt_path, rt_text), as one call: the
\* parents are created, the file is opened (created, truncated) and n of the
\* String's bytes reach it; Ok when all of them did.
RtSave ==
    /\ rt_pc = "start"
    /\ rt_pc' = "written"
    /\ LET m == save_mkdir(rt_dir, rt_path)
           bytes == as_bytes(rt_text)
           failed == <<"Failed to write file: ", rt_path>>
       IN  IF ~m.ok
           THEN /\ rt_result' = m
                /\ UNCHANGED <<rt_dir, rt_file>>
           ELSE /\ rt_dir' = m.val
                /\ \E denied \in BOOLEAN, n \in 0..Len(bytes) :
                     IF denied
                     THEN /\ rt_result' =
                               Err(Error(failed, "Permission denied (os error 13)"))
                          /\ UNCHANGED rt_file
                     ELSE /\ rt_file' = TextFile(Prefix(bytes, n))
                          /\ rt_result' =
                               IF n = Len(bytes)
                               THEN Ok(<<>>)
                               ELSE Err(Error(failed,
                                        "No space left on device (os error 28)"))
    /\ rt_ok' = rt_result'.ok
    /\ UNCHANGED <<rt_path, rt_text, rt_other, rt_pre>>
    /\ UNCHANGED appvars

\* Another program writes the file between the save and the load.
RtOtherWrite ==
    /\ rt_pc = "written"
    /\ ~rt_other
    /\ rt_other' = TRUE
    /\ \E b \in OtherBytes : rt_file' = TextFile(b)
    /\ UNCHANGED <<rt_pc, rt_path, rt_text, rt_dir, rt_ok, rt_result, rt_pre>>
    /\ UNCHANGED appvars

\* storage.rs:39-52: load_text_file(rt_path).
RtLoad ==
    /\ rt_pc = "written"
    /\ rt_pc' = "loaded"
    /\ rt_result' = Context(read_to_string(rt_file),
                            <<"Failed to read file: ", rt_path>>)
    /\ UNCHANGED <<rt_path, rt_text, rt_dir, rt_file, rt_ok, rt_other, rt_pre>>
    /\ UNCHANGED appvars

RtNext == RtSave \/ RtOtherWrite \/ RtLoad

RoundTripSpec == RtInit /\ [][RtNext]_vars

\* The scheduler runs both threads; the user keeps the frames coming.
FairSpec == Spec /\ WF_vars(update) /\ WF_vars(autosave_thread)

\* The editor started where the user's data directory resolves and test.bks
\* holds a text.
LiveInit ==
    /\ Init
    /\ home
    /\ files[test_path] = TextFile([i \in 1..MaxLen |-> "a"])

\* Fairness of the autosave loop: frames end and the loop takes its steps, and
\* the loop gets the mutex if the mutex is free again and again (the frames
\* release it once per frame).
AutosaveFairSpec ==
    /\ LiveInit /\ [][Next]_vars
    /\ WF_vars(update) /\ WF_vars(autosave_thread) /\ SF_vars(AutoLock)

\* The three lock() calls of the interactive path.
GuiLock == LoadLock \/ SaveLock \/ EditLock

\* Fairness of both waits for the mutex: the loop sleeps 60 s between two
\* acquisitions and a frame does its other work between two, so a thread
\* blocked in lock() gets the mutex when it is free again and again.
LockFairSpec ==
    /\ LiveInit /\ [][Next]_vars
    /\ WF_vars(update) /\ WF_vars(autosave_thread)
    /\ SF_vars(GuiLock) /\ SF_vars(AutoLock)

TypeOK ==
    /\ text_content \in Texts
    /\ mutex \in {"free", "gui", "auto"}
    /\ current_file_path \in {None} \cup Paths
    /\ files \in [Paths -> FileStates]
    /\ dir \in {"absent", "dir", "file"}
    /\ home \in BOOLEAN
    /\ g_content \in Texts
    /\ a_content \in Texts
    /\ a_held \subseteq Texts

\* ================================================================= claims
GuiInCS == g_pc \in {"load_store", "save_copy", "edit"}
AutoInCS == a_pc = "a_copy"

GuiWaits == g_pc \in {"load_lock", "save_lock", "edit_lock"}

\* The positions at which a thread is inside a filesystem call.
GuiInIO == g_pc \in {"load_read", "save_mkdir", "save_open", "save_write"}
AutoInIO == a_pc \in {"resolve", "a_mkdir", "a_open", "a_write"}

\* The positions at which a thread holds a finished snapshot.
GuiHasSnap == g_pc \in {"save_mkdir", "save_open", "save_write", "save_ok", "save_err"}
AutoHasSnap == a_pc \in {"a_mkdir", "a_open", "a_write", "saved", "err_save"}

InSave == g_pc \in {"save_lock", "save_copy"} \/ GuiHasSnap

IsPrefix(s, t) == Len(s) <= Len(t) /\ s = Prefix(t, Len(s))

\* C1: at most one of the two threads is inside the buffer's critical
\* section, a thread inside it holds the mutex, and every step that writes
\* the buffer or copies a character of it is taken by the holder.
C1_MutualExclusion ==
    /\ [](/\ ~(GuiInCS /\ AutoInCS)
          /\ (GuiInCS => mutex = "gui")
          /\ (AutoInCS => mutex = "auto"))
    /\ [][/\ (text_content' # text_content => mutex = "gui" /\ GuiInCS)
          /\ (g_content' # g_content /\ g_pc = "save_copy" /\ g_pc' = "save_copy"
                => mutex = "gui")
          /\ (a_content' # a_content /\ a_pc = "a_copy" /\ a_pc' = "a_copy"
                => mutex = "auto")]_vars

\* The autosave clone is half done while the frame waits to edit.
C1_Witness ==
    /\ a_pc = "a_copy" /\ Len(a_content) = 1 /\ mutex = "auto"
    /\ g_pc = "edit_lock"

\* C2: a finished snapshot is one value the buffer held while the clone ran;
\* while a clone runs the buffer keeps the value it had when the lock was
\* taken and the copy is a prefix of it (so nothing of a racing open's text
\* can join text copied before it).
C2_NoTornReads ==
    /\ (AutoHasSnap => a_content \in a_held /\ Cardinality(a_held) = 1)
    /\ (AutoInCS => a_held = {text_content} /\ IsPrefix(a_content, text_content))
    /\ (g_pc = "save_copy" => IsPrefix(g_content, text_content))
    /\ (GuiHasSnap => g_content = g_pre.buf)

\* An open holding other text waits for the lock while the clone is half done.
C2_Witness ==
    /\ a_pc = "a_copy" /\ Len(a_content) = 1
    /\ g_pc = "load_lock" /\ g_content # text_content /\ g_content # <<>>

\* C3: while the autosave loop is inside a filesystem call it does not hold
\* the mutex, and an interactive step that needs the mutex is enabled.
C3_AutosaveIOUnlocked ==
    AutoInIO =>
        /\ mutex # "auto"
        /\ ~AutoInCS
        /\ (g_pc = "edit_lock" => ENABLED EditLock)
        /\ (g_pc = "load_lock" => ENABLED LoadLock)
        /\ (g_pc = "edit" => ENABLED Edit)

\* The frame edits the buffer while the autosave write is in progress.
C3_Witness ==
    /\ a_pc = "a_write" /\ files[autosave_path] = TextFile(<<>>) /\ a_content # <<>>
    /\ g_pc = "edit" /\ mutex = "gui"

\* C4: while open or save_as is inside a filesystem call the interactive
\* path does not hold the mutex, and an autosave loop that wants the mutex
\* can take it.
C4_GuiIOUnlocked ==
    GuiInIO =>
        /\ mutex # "gui"
        /\ ~GuiInCS
        /\ (a_pc = "a_lock" => ENABLED AutoLock)
        /\ (a_pc = "a_copy" => ENABLED AutoClone \/ ENABLED AutoUnlock)

\* The autosave clone runs while save_as is writing its file.
C4_Witness ==
    /\ g_pc = "save_write" /\ g_content # <<>>
    /\ a_pc = "a_copy" /\ mutex = "auto" /\ Len(a_content) = 1

\* C5: when open(path) has failed, the buffer and the file reference are what
\* they were when the call began, the interactive path holds no lock, and
\* the status line is the load error naming the path; the failing step itself
\* leaves the mutex alone.
C5_LoadFailureUntouched ==
    /\ [](g_pc = "load_err" =>
            /\ text_content = g_pre.buf
            /\ current_file_path = g_pre.cur
            /\ mutex # "gui"
            /\ status_message[1] = "Error loading file: "
            /\ Contains(status_message, test_path))
    /\ [][g_pc' = "load_err" /\ g_pc # "load_err" =>
            g_pc = "load_read" /\ mutex' = mutex /\ text_content' = text_content]_vars

\* An open fails with text in the buffer and a file reference recorded.
C5_Witness ==
    /\ g_pc = "load_err"
    /\ text_content # <<>>
    /\ current_file_path = save_path
    /\ files[test_path] = Absent

\* C6: when open(path) has succeeded, the buffer is exactly the text of the
\* file at path and the file reference is path.
C6_LoadReplacesWholesale ==
    g_pc = "load_ok" =>
        /\ files[test_path].kind = "text"
        /\ text_content = files[test_path].data
        /\ current_file_path = test_path

\* An open succeeds over a buffer that held other, non-empty text.
C6_Witness ==
    /\ g_pc = "load_ok"
    /\ g_pre.buf # <<>>
    /\ g_pre.buf # text_content
    /\ text_content # <<>>

\* C7: from the start of save_as(path) to its return, failed or not, the
\* buffer is what it was when the call began.
C7_SaveNeverMutates ==
    InSave => text_content = g_pre.buf

\* A save_as fails half way through the write with text in the buffer.
C7_Witness ==
    /\ g_pc = "save_err"
    /\ text_content # <<>>
    /\ files[save_path] = TextFile(Prefix(text_content, 1))

\* C8: when save_as(path) has succeeded, the file at path holds exactly the
\* snapshot, the snapshot is the buffer's text at the call, the file
\* reference is path, the status line names path, and loading path yields
\* the snapshot.
C8_SaveWritesSnapshot ==
    g_pc = "save_ok" =>
        /\ files[save_path] = TextFile(g_content)
        /\ g_content = g_pre.buf
        /\ current_file_path = save_path
        /\ status_message[1] = "Saved: "
        /\ Contains(status_message, save_path)
        /\ load_text_file(files, save_path) = Ok(g_content)

\* A save_as of a non-empty buffer succeeds.
C8_Witness ==
    /\ g_pc = "save_ok"
    /\ g_content # <<>>
    /\ g_pre.cur # save_path

\* C9: the file reference starts as none and every change of it is the last
\* step of a successful open (to test.bks) or of a successful save_as (to
\* output.bks); no other step, of either thread, changes it.
C9_FileReference ==
    /\ current_file_path = None
    /\ [][current_file_path' # current_file_path =>
            \/ /\ g_pc = "load_store" /\ g_pc' = "load_ok"
               /\ current_file_path' = test_path
            \/ /\ g_pc = "save_write" /\ g_pc' = "save_ok"
               /\ current_file_path' = save_path]_vars

\* A save_as fails after a successful open: the reference is still test.bks.
C9_Witness ==
    /\ g_pc = "save_err"
    /\ current_file_path = test_path
    /\ g_pre.cur = test_path

\* C10: the loop is always at one of its positions; after an error line its
\* next step takes it to sleeping, that step is enabled, and a sleeping loop
\* can always wake for the next cycle.
C10_AutosaveFailureNonFatal ==
    /\ [](/\ a_pc \in {"sleeping", "resolve", "a_lock", "a_copy", "a_mkdir",
                       "a_open", "a_write", "saved", "err_dir", "err_save"}
          /\ (a_pc \in {"err_dir", "err_save"} => ENABLED Continue)
          /\ (a_pc = "sleeping" => ENABLED Wake))
    /\ [][(a_pc \in {"err_dir", "err_save"} /\ a_pc' # a_pc) =>
            (a_pc' = "sleeping")]_vars

\* The loop sleeps again after a failed write and the directory is usable.
C10_Witness ==
    /\ a_pc = "sleeping"
    /\ Len(log) > 0 /\ log[1] = "Autosave failed: "
    /\ dir = "dir"

\* The positions of the autosave loop and the steps between them.
AutoPcs == {"sleeping", "resolve", "a_lock", "a_copy", "a_mkdir", "a_open",
            "a_write", "saved", "err_dir", "err_save"}

AutoFlow == {<<"sleeping", "resolve">>, <<"resolve", "a_lock">>,
             <<"resolve", "err_dir">>, <<"a_lock", "a_copy">>,
             <<"a_copy", "a_mkdir">>, <<"a_mkdir", "a_open">>,
             <<"a_mkdir", "err_save">>, <<"a_open", "a_write">>,
             <<"a_open", "err_save">>, <<"a_write", "saved">>,
             <<"a_write", "err_save">>, <<"saved", "sleeping">>,
             <<"err_dir", "sleeping">>, <<"err_save", "sleeping">>}

\* A step of the autosave loop.
AutoStep == <<a_pc, a_content, a_tries, log>>' # <<a_pc, a_content, a_tries, log>>

\* C11: since the last sleep the loop has called get_autosave_dir at most
\* once and fs::write at most once, and the counts start again only when a
\* sleep ends.
C11_NoRetryWithinCycle ==
    /\ [](a_tries.resolve <= 1 /\ a_tries.write <= 1)
    /\ [][(a_tries'.resolve < a_tries.resolve \/ a_tries'.write < a_tries.write)
            => (a_pc = "sleeping" /\ a_pc' = "resolve")]_vars

\* A cycle's only write attempt has failed.
C11_Witness ==
    /\ a_pc = "err_save"
    /\ a_tries = [resolve |-> 1, write |-> 1]

\* C12: the loop is never stuck at a position of its own making, it moves
\* only along sleep, resolve, lock, copy, release, write, sleep, it holds the
\* mutex exactly while it copies, and what a cycle writes to the autosave
\* file is the copy that cycle took (all of it when the write succeeds).
C12_AutosaveCycle ==
    /\ [](/\ a_pc \in AutoPcs
          /\ (ENABLED autosave_thread \/ (a_pc = "a_lock" /\ mutex = "gui"))
          /\ (a_pc = "a_copy" <=> mutex = "auto"))
    /\ [][a_pc' # a_pc => (<<a_pc, a_pc'>> \in AutoFlow)]_vars
    /\ [][(AutoStep /\ files'[autosave_path] # files[autosave_path]) =>
            /\ a_pc \in {"a_open", "a_write"}
            /\ a_content \in a_held
            /\ files'[autosave_path].kind = "text"
            /\ IsPrefix(files'[autosave_path].data, a_content)
            /\ (a_pc' = "saved" => files'[autosave_path].data = a_content)]_vars

\* A cycle has written its copy although the buffer has changed since.
C12_Witness ==
    /\ a_pc = "saved"
    /\ files[autosave_path] = TextFile(a_content)
    /\ a_content # <<>>
    /\ text_content # a_content
    /\ text_content # <<>>

\* C13: no step of the autosave loop changes the buffer, the file reference
\* or the status line.
C13_AutosaveReadOnly ==
    [][AutoStep => UNCHANGED <<text_content, current_file_path, status_message>>]_vars

\* An autosave write has failed beside a loaded, non-empty buffer.
C13_Witness ==
    /\ a_pc = "err_save"
    /\ a_tries.write = 1
    /\ text_content # <<>>
    /\ current_file_path = test_path
    /\ status_message[1] = "Loaded: "

\* Directory resolution and file writes succeed.
Benign == home /\ dir = "dir" /\ a_pc \notin {"err_dir", "err_save"}

\* C14: if from some point on the buffer stays equal to C and directory
\* resolution and the writes succeed, then from some point on the autosave
\* file holds exactly C whenever the loop sleeps, and it holds C again and
\* again.
C14_EventualAutosave ==
    \A C \in Inputs :
        <>[](text_content = C /\ Benign) =>
            /\ <>[](a_pc = "sleeping" => files[autosave_path] = TextFile(C))
            /\ []<>(files[autosave_path] = TextFile(C))

\* The autosave file holds the buffer's non-empty text and the loop sleeps.
C14_Witness ==
    /\ a_pc = "sleeping"
    /\ text_content # <<>>
    /\ files[autosave_path] = TextFile(text_content)
    /\ log = <<"Autosaved to: ", autosave_path>>

\* C15: the values a cycle may write are counted from the acquisition of the
\* lock (the copy starts empty and only the buffer's value at that moment is
\* known), every value the buffer takes while the copy runs is added, and
\* what the cycle writes to the autosave file is one of these values (a
\* prefix of it when the write fails): never a value the buffer held only
\* before the acquisition.
C15_SnapshotFreshness ==
    /\ [][(a_pc = "a_lock" /\ a_pc' = "a_copy") =>
            (mutex' = "auto" /\ a_content' = <<>> /\ a_held' = {text_content'})]_vars
    /\ [][(a_pc = "a_copy" /\ a_pc' = "a_copy") =>
            a_held' = a_held \cup {text_content'}]_vars
    /\ [][(a_pc = "a_write" /\ a_pc' # "a_write") =>
            \E v \in a_held :
                /\ IsPrefix(files'[autosave_path].data, v)
                /\ (a_pc' = "saved" => files'[autosave_path] = TextFile(v))]_vars

\* A cycle has written the buffer's value of its acquisition while
\* output.bks holds another text, one the buffer held at an earlier save.
C15_Witness ==
    /\ a_pc = "saved"
    /\ a_content # <<>>
    /\ a_held = {a_content}
    /\ files[autosave_path] = TextFile(a_content)
    /\ files[save_path].kind = "text"
    /\ files[save_path].data \notin {<<>>, a_content}
    /\ g_pc = "menu"

\* C16: when save_text_file(P, C) returned Ok and nothing else wrote P
\* before load_text_file(P), the load returns Ok with exactly C: the bytes
\* on disk are C's UTF-8 bytes and decoding them gives C back.
C16_RoundTrip ==
    /\ (rt_pc = "written" /\ rt_ok /\ ~rt_other) =>
           rt_file = TextFile(as_bytes(rt_text))
    /\ (rt_pc = "loaded" /\ rt_ok /\ ~rt_other) => rt_result = Ok(rt_text)

\* A String of the longest length with a character of several bytes was
\* saved over an existing file into a directory made for it, and loaded.
C16_Witness ==
    /\ rt_pc = "loaded" /\ rt_ok /\ ~rt_other
    /\ rt_path = autosave_path /\ rt_dir = "dir"
    /\ Len(rt_text) = RtMaxLen
    /\ Len(rt_file.data) > Len(rt_text) + 2
    /\ rt_result = Ok(rt_text)

\* C17: save_text_file to a path whose parent directory is missing creates
\* the directory and can succeed, leaving the whole content in the file (if
\* it fails, the error comes from the write, not from the directory); to a
\* path whose parent is a file it returns the error of the directory
\* creation, changes nothing and leaves no file at the path.
C17_DirectoryCreation ==
    /\ []((rt_pc = "start" /\ Parent(rt_path) # "" /\ rt_dir = "absent") =>
            ENABLED (/\ RtSave
                     /\ rt_result' = Ok(<<>>)
                     /\ rt_dir' = "dir"
                     /\ rt_file' = TextFile(as_bytes(rt_text))))
    /\ [][(rt_pc = "start" /\ rt_pc' = "written" /\ Parent(rt_path) # ""
               /\ rt_dir = "absent") =>
            /\ rt_dir' = "dir"
            /\ ~rt_result'.ok => rt_result'.val.ctx[1] = "Failed to write file: "]_vars
    /\ [][(rt_pc = "start" /\ rt_pc' = "written" /\ Parent(rt_path) # ""
               /\ rt_dir = "file") =>
            /\ rt_result' = Err(Error(<<"Failed to create directory: ",
                                       Parent(rt_path)>>,
                                     "File exists (os error 17)"))
            /\ rt_file' = Absent
            /\ UNCHANGED <<rt_dir, rt_file>>]_vars

\* The save made the missing directory and wrote a non-empty String.
C17_Witness ==
    /\ rt_pc = "written"
    /\ rt_pre.dir = "absent" /\ rt_dir = "dir"
    /\ rt_path = autosave_path
    /\ rt_result = Ok(<<>>)
    /\ rt_text # <<>>
    /\ rt_file = TextFile(as_bytes(rt_text))

\* C18: after a save_text_file attempt on an existing file, failed or not,
\* the file holds either the complete content it had before or the complete
\* new content, never an empty or partial one.
C18_AtomicOverwrite ==
    (rt_pc = "written" /\ rt_pre.file.kind = "text" /\ ~rt_other) =>
        rt_file \in {rt_pre.file, TextFile(as_bytes(rt_text))}

\* The operating system's errors under the adapter's failures.
OsErrors == {"No such file or directory (os error 2)",
             "Permission denied (os error 13)",
             "File exists (os error 17)",
             "No space left on device (os error 28)"}

\* C19: every autosave cycle prints its outcome: a successful cycle a line
\* with the autosave path; a failed cycle a line with the path it failed on
\* (the autosave file or its directory) and the underlying cause, the
\* operating system's error. (A cycle that could not resolve the user's
\* data directory has no path and no error under it: it prints a line.)
C19_AutosaveReported ==
    /\ a_pc = "saved" =>
           log[1] = "Autosaved to: " /\ Contains(log, autosave_path)
    /\ (a_pc = "err_dir" /\ ~home) => log # <<>>
    /\ (a_pc = "err_save" \/ (a_pc = "err_dir" /\ home)) =>
           /\ Contains(log, autosave_path) \/ Contains(log, autosave_dir)
           /\ \E c \in OsErrors : Contains(log, c)

\* C20: when save_as(path) has failed, the status line holds the error text
\* and names the path, the file reference and the buffer are what they were
\* when the call began (the buffer holds text, not the error), the lock is
\* not with the frame, and the frame goes on: the call returns, and at the
\* menu an open, a save_as and an edit can each start.
C20_SaveFailureHandled ==
    /\ g_pc = "save_err" =>
           /\ status_message[1] = "Error saving file: "
           /\ Contains(status_message, save_path)
           /\ current_file_path = g_pre.cur
           /\ text_content = g_pre.buf
           /\ text_content \in Texts
           /\ mutex # "gui"
           /\ ENABLED MenuReturn
    /\ g_pc = "menu" =>
           ENABLED ClickOpen /\ ENABLED ClickSave /\ ENABLED NoClick

\* The open of output.bks was denied: no file, text in the buffer, the
\* error on the status line.
C20_Witness ==
    /\ g_pc = "save_err"
    /\ files[save_path] = Absent
    /\ text_content # <<>>
    /\ status_message = <<"Error saving file: ", "Failed to write file: ", save_path>>

\* C21: whenever the interactive path waits for a lock that is taken, the
\* holder is the autosave loop in its copy step (not sleeping, not at a
\* directory or file operation); every step the loop takes while it holds
\* the lock copies one more character or releases the lock, so it releases
\* after at most one step per character plus one; and a waiting interactive
\* path eventually holds the lock.
C21_GuiWaitEnds ==
    /\ []((GuiWaits /\ mutex # "free") =>
            /\ mutex = "auto" /\ a_pc = "a_copy" /\ ~AutoInIO
            /\ Len(a_content) <= Len(text_content)
            /\ ENABLED (AutoClone \/ AutoUnlock))
    /\ [][(mutex = "auto" /\ AutoStep) =>
            \/ mutex' = "auto" /\ Len(a_content') = Len(a_content) + 1
            \/ mutex' = "free"]_vars
    /\ (GuiWaits ~> GuiInCS)

\* A save_as waits for the lock while the loop has just begun its copy.
C21_Witness ==
    /\ g_pc = "save_lock"
    /\ mutex = "auto"
    /\ a_pc = "a_copy"
    /\ a_content = <<>>
    /\ text_content # <<>>

\* C22: a loop that waits for the lock while the frames take it one after
\* the other eventually holds it, and a loop that holds it finishes the
\* cycle: it is back at its sleep, with a success line or an error line
\* printed.
C22_AutosaveNotStarved ==
    /\ (a_pc = "a_lock") ~> (a_pc = "a_copy" /\ mutex = "auto")
    /\ (a_pc = "a_copy") ~> (a_pc = "sleeping" /\ log # <<>>)

\* The loop waits for the lock while a frame holds it for an edit.
C22_Witness ==
    /\ a_pc = "a_lock"
    /\ mutex = "gui"
    /\ g_pc = "edit"
    /\ text_content # <<>>

\* C23: a thread that is about to call lock() does not hold the mutex; the
\* interactive path holds it exactly at its three critical sections and
\* the loop exactly at its copy, so when the frame reaches the text editor's
\* lock() the open or save_as of the same frame has released; a waiting
\* interactive path is blocked only by the loop, never by itself; and every
\* step that takes the mutex starts from a free mutex.
C23_NoReentrantLock ==
    /\ [](/\ GuiWaits => mutex # "gui"
          /\ a_pc = "a_lock" => mutex # "auto"
          /\ mutex = "gui" <=> GuiInCS
          /\ mutex = "auto" <=> AutoInCS
          /\ GuiWaits => (ENABLED GuiLock \/ (mutex = "auto" /\ AutoInCS))
          /\ g_pc \in {"load_ok", "load_err", "save_ok", "save_err"} =>
                (mutex # "gui" /\ ENABLED MenuReturn))
    /\ [][(mutex' # mutex /\ mutex' # "free") =>
            /\ mutex = "free"
            /\ \/ mutex' = "gui" /\ GuiWaits /\ GuiInCS'
               \/ mutex' = "auto" /\ a_pc = "a_lock" /\ AutoInCS']_vars
    /\ [][(g_pc \in {"load_ok", "load_err", "save_ok", "save_err"}
              /\ g_pc' # g_pc) => g_pc' = "edit_lock"]_vars

\* An open has stored its text and released; the frame has yet to reach the
\* text editor.
C23_Witness ==
    /\ g_pc = "load_ok"
    /\ mutex = "free"
    /\ text_content # <<>>
    /\ a_pc = "a_lock"

\* C24: whatever the file reference is, the loop's steps change no file but
\* DATA/projects/autosave.bks; the open of a cycle empties that file and a
\* successful write leaves exactly the cycle's snapshot in it, nothing of
\* what it held before, and the success line names that path.
C24_FixedAutosavePath ==
    /\ [][AutoStep =>
            /\ files'[test_path] = files[test_path]
            /\ files'[save_path] = files[save_path]]_vars
    /\ [][(a_pc = "a_open" /\ a_pc' = "a_write") =>
            files'[autosave_path] = TextFile(<<>>)]_vars
    /\ [][(a_pc = "a_write" /\ a_pc' = "saved") =>
            /\ files'[autosave_path] = TextFile(a_content)
            /\ log' = <<"Autosaved to: ", autosave_path>>]_vars

\* The editor has output.bks open, holding one text; the loop has saved
\* another text to the autosave file.
C24_Witness ==
    /\ a_pc = "saved"
    /\ current_file_path = save_path
    /\ files[save_path].kind = "text"
    /\ files[save_path].data # <<>>
    /\ a_content # <<>>
    /\ a_content # files[save_path].data
    /\ files[autosave_path] = TextFile(a_content)

\* C25: once a cycle has printed the error of get_autosave_dir, the loop is
\* at that error or asleep again: it has not taken the lock, has no
\* snapshot and has made no write attempt in the cycle; the failing step
\* and the step back to sleep change no file and leave the mutex and the
\* buffer alone.
C25_ResolveFailureSkipsCycle ==
    /\ []((log # <<>> /\ log[1] = "Autosave error: ") =>
            /\ a_pc \in {"err_dir", "sleeping"}
            /\ a_content = <<>> /\ a_held = {}
            /\ a_tries = [resolve |-> 1, write |-> 0]
            /\ mutex # "auto")
    /\ [](a_pc = "err_dir" => (log # <<>> /\ log[1] = "Autosave error: "))
    /\ [][(a_pc = "resolve" /\ a_pc' # a_pc /\ ~get_autosave_dir(home, dir).ok) =>
            /\ a_pc' = "err_dir"
            /\ UNCHANGED <<files, dir, mutex, text_content>>]_vars
    /\ [][(a_pc = "err_dir" /\ a_pc' # a_pc) =>
            /\ a_pc' = "sleeping"
            /\ UNCHANGED <<files, dir, mutex, text_content, log>>]_vars

\* The autosave directory's path is taken by a file: the cycle is back at
\* its sleep with the error printed, while the buffer holds text.
C25_Witness ==
    /\ a_pc = "sleeping"
    /\ log = <<"Autosave error: ", "Failed to create autosave directory: ",
               autosave_dir>>
    /\ dir = "file"
    /\ text_content # <<>>

\* C26: from the snapshot of a save_as to its return no step of either
\* thread changes the buffer, and no step of the loop changes the file being
\* saved; so when save_as(path) has succeeded the file at path holds the
\* buffer's current text, and loading it gives that text.
C26_SavedFileIsBuffer ==
    /\ [](g_pc = "save_ok" =>
            /\ files[save_path] = TextFile(text_content)
            /\ load_text_file(files, save_path) = Ok(text_content))
    /\ [][GuiHasSnap => text_content' = text_content]_vars
    /\ [][(GuiHasSnap /\ AutoStep) => files'[save_path] = files[save_path]]_vars

\* A save_as has succeeded while the loop is in the middle of its copy.
C26_Witness ==
    /\ g_pc = "save_ok"
    /\ text_content # <<>>
    /\ a_pc = "a_copy"
    /\ Len(a_content) = 1
    /\ files[autosave_path] # files[save_path]

\* The loop is in its first sleep: asleep with no line printed yet (every
\* cycle prints one before it sleeps again).
FirstSleep == a_pc = "sleeping" /\ log = <<>>

\* C27: the loop starts asleep; during its first sleep it does not hold the
\* lock, has made no call and there is no autosave file; its only step out
\* of the first sleep is the wake-up, which touches neither the mutex nor
\* the filesystem; and the loop takes the lock or changes a file or the
\* directory only after a wake-up and a directory resolution.
C27_SleepsBeforeFirstSave ==
    /\ FirstSleep
    /\ [](FirstSleep =>
            /\ mutex # "auto"
            /\ a_tries = NoTries /\ a_content = <<>> /\ a_held = {}
            /\ files[autosave_path] = Absent)
    /\ [][(FirstSleep /\ AutoStep) =>
            /\ a_pc' = "resolve"
            /\ UNCHANGED <<files, dir, mutex, text_content>>]_vars
    /\ [][(AutoStep /\ (files' # files \/ dir' # dir \/ mutex' = "auto")) =>
            (~FirstSleep /\ a_tries.resolve + a_tries'.resolve >= 1)]_vars

\* During the loop's first sleep the user has typed a text and saved it:
\* output.bks holds it and there is no autosave file.
C27_Witness ==
    /\ FirstSleep
    /\ text_content # <<>>
    /\ files[save_path] = TextFile(text_content)
    /\ files[autosave_path] = Absent
    /\ g_pc = "menu"

====
